---- MODULE Spec2Model ----
(***************************************************************************)
(* keepalived.py: KeepalivedLogParser.run = findLogs; parseLogs;           *)
(* processEntries; populateView.  One action per loop step of the source.  *)
(* A log line is a record [stamp, text]: stamp is its leading token, text  *)
(* the whitespace tokens after it (line.split()[1:]).                      *)
(***************************************************************************)
EXTENDS Integers, Sequences, FiniteSets, TLC

\* ------------------------------------------------------------------ bounds
\* lines read from the files of one directory in one run, for the logs of
\* few kinds of line (MaxLines) and for those of many kinds (MaxLinesWide)
MaxLines == 3
MaxLinesWide == 2
\* lines read in each run of a parser that is run twice
MaxLinesRerun == 1
\* whole seconds a leading timestamp may carry: 0..MaxSec
MaxSec == 1

\* ------------------------------------------------------- module constants
scriptSucceeded == "Script succeeded"
scriptFailed == "Script failed"
tookVip == "Took VIP"
lostVip == "Lost VIP"
reloading == "Reloading"
nodeAddress == "Node address"

Slots == 0..3

\* ------------------------------------------------------------ timestamps
\* A datetime: whole seconds and the sub-second part (half a second stands
\* for any non-zero microsecond field).
Time(s, u) == [sec |-> s, micro |-> u]
\* None, the initial value of both time bounds
None == [sec |-> -1, micro |-> 0]
\* datetime.__lt__
Before(a, b) == a.sec < b.sec \/ (a.sec = b.sec /\ a.micro < b.micro)
\* the leading token of a line: an ISO-8601 text, or one that does not parse
GoodStamp(s, u) == [ok |-> TRUE, sec |-> s, micro |-> u]
BadStamp == [ok |-> FALSE, sec |-> 0, micro |-> 0]

\* every leading token parses
getTimeNeverRaises(line) == FALSE
\* fromisoformat(line.split()[0]) raises ValueError on a token that is no
\* ISO-8601 datetime
getTimeRaises(line) == ~line.stamp.ok
\* ... .replace(microsecond=0)
getTime(line) == Time(line.stamp.sec, 0)

\* ------------------------------------------------------------- substrings
\* The fragments the parser looks for that a token contains besides itself.
Parts(tok) ==
    CASE tok = "(ocp_API_0)" -> {tok}
      [] tok = "(ocp_API_1)" -> {tok, "API_1"}
      [] tok = "(ocp_INGRESS_0)" -> {tok, "INGRESS_0"}
      [] tok = "(ocp_INGRESS)" -> {tok, "_INGRESS)"}
      [] tok = "(ocp_INGRESS_1)" -> {tok, "INGRESS_1"}
      [] tok = "(API_1+INGRESS_0)" -> {tok, "API_1", "INGRESS_0"}
      [] tok = "VRRP_Script(chk_ocp)" -> {tok, "VRRP_Script", "chk_ocp"}
      [] tok = "VRRP_Script(chk_ingress)" -> {tok, "VRRP_Script"}
      [] tok = "address:" -> {tok, "address"}
      [] OTHER -> {tok}

\* pat in line, for a pattern of single-space separated words
In(pat, line) ==
    \E i \in 1..(Len(line.text) - Len(pat) + 1) :
        \A k \in 1..Len(pat) : pat[k] \in Parts(line.text[i + k - 1])

\* the index of the token 'Assigned' instead
IndexOfAssigned(word, text) ==
    IF \E i \in 1..Len(text) : text[i] = "Assigned"
    THEN CHOOSE i \in 1..Len(text) : text[i] = "Assigned"
    ELSE 0

\* parts.index(word) over line.split(), counted in line.text (the stamp
\* token is never the word); 0 when list.index raises ValueError
IndexOf(word, text) ==
    IF \E i \in 1..Len(text) : text[i] = word
    THEN CHOOSE i \in 1..Len(text) :
             text[i] = word /\ \A j \in 1..(i - 1) : text[j] # word
    ELSE 0

\* line.split()[-1]
LastToken(line) == line.text[Len(line.text)]

\* ------------------------------------------------------------- log lines
MasterText(tag) == <<tag, "Entering", "MASTER", "STATE">>
BackupText(tag) == <<tag, "Entering", "BACKUP", "STATE">>
ArpText(tag, addr) == <<tag, "Sending/queueing", "gratuitous", "ARPs", addr>>
NaText(tag, addr) ==
    <<tag, "Sending/queueing", "Unsolicited", "Neighbour", "Adverts", addr>>
ScriptText(chk, result) == <<chk, result>>
ReloadText == <<"Reloading", "...">>
AddrText == <<"Assigned", "address", "10.0.0.5">>
AddrOnIfaceText == <<"Assigned", "address", "10.0.0.6", "for", "eth0">>
AddrNoTokenText == <<"Assigned", "address">>
AddrNoWordText == <<"Assigned", "address:", "10.0.0.5">>
OtherText == <<"Starting">>

Stamps == {GoodStamp(s, 0) : s \in 0..MaxSec}
LinesOf(texts, stamps) == {[stamp |-> st, text |-> tx] : st \in stamps, tx \in texts}

\* --------------------------------------------------------------- records
\* LogEntry.__init__
LogEntry(timestamp, line, event) ==
    [timestamp |-> timestamp, line |-> line, event |-> event, vip |-> 0]

\* NodeData.__init__
NodeData == [vipChanges |-> [s \in Slots |-> <<>>], events |-> <<>>, addrs |-> {}]

\* ------------------------------------------------------------ classifier
\* the INGRESS markers tested before 'API_1'
setEntryVipIngressFirst(entry, line) ==
    IF In(<<"INGRESS_0">>, line) \/ In(<<"_INGRESS)">>, line)
    THEN [entry EXCEPT !.vip = 2]
    ELSE IF In(<<"INGRESS_1">>, line) THEN [entry EXCEPT !.vip = 3]
    ELSE IF In(<<"API_1">>, line) THEN [entry EXCEPT !.vip = 1]
    ELSE entry

setEntryVip(entry, line) ==
    IF In(<<"API_1">>, line) THEN [entry EXCEPT !.vip = 1]
    ELSE IF In(<<"INGRESS_0">>, line) \/ In(<<"_INGRESS)">>, line)
         THEN [entry EXCEPT !.vip = 2]
    ELSE IF In(<<"INGRESS_1">>, line) THEN [entry EXCEPT !.vip = 3]
    ELSE entry

\* the entry of line 194 without the assignment of line 196
ScriptEntryFailed(timestamp, line) ==
    [LogEntry(timestamp, line, scriptFailed)
        EXCEPT !.vip = IF In(<<"chk_ocp">>, line) THEN 0 ELSE 1]

\* the test of line 193 and the entry it builds
IsScript(line) ==
    In(<<"VRRP_Script">>, line)
    /\ (In(<<"succeeded">>, line) \/ In(<<"failed">>, line))
ScriptEntry(timestamp, line) ==
    [LogEntry(timestamp, line,
              IF In(<<"succeeded">>, line) THEN scriptSucceeded ELSE scriptFailed)
        EXCEPT !.vip = IF In(<<"chk_ocp">>, line) THEN 0 ELSE 1]

IsArp(line) ==
    In(<<"Sending/queueing", "gratuitous", "ARPs">>, line)
    \/ In(<<"Sending/queueing", "Unsolicited", "Neighbour", "Adverts">>, line)
IsMaster(line) == In(<<"Entering", "MASTER", "STATE">>, line)
IsBackup(line) == In(<<"Entering", "BACKUP", "STATE">>, line)
IsReload(line) == In(<<"Reloading", "...">>, line)
IsAddress(line) == In(<<"Assigned", "address">>, line)

\* the slot setEntryVip gives the entry of a line
SlotOf(line) == setEntryVip(LogEntry(None, line, tookVip), line).vip

\* whether the ARP/NA test appends its entry, given the file's flags
ArpAppends(line, flags) == ~flags[SlotOf(line)]

\* the flags set by ARP/NA lines only
FlagsAfterArpOnly(line, flags) ==
    IF IsArp(line) THEN [flags EXCEPT ![SlotOf(line)] = TRUE] ELSE flags
\* gratuitousArp[entry.vip] = True, of the ARP/NA and of the MASTER test
FlagsAfter(line, flags) ==
    IF IsArp(line) \/ IsMaster(line)
    THEN [flags EXCEPT ![SlotOf(line)] = TRUE] ELSE flags

\* the earliest bound set by the first line only
ExtendBoundsFirstLine(tb, timestamp) ==
    << IF tb[1] = None THEN timestamp ELSE tb[1],
       IF tb[2] = None \/ Before(tb[2], timestamp) THEN timestamp ELSE tb[2] >>

\* the latest bound set by the first line only
ExtendBoundsLatestFirstLine(tb, timestamp) ==
    << IF tb[1] = None \/ Before(timestamp, tb[1]) THEN timestamp ELSE tb[1],
       IF tb[2] = None THEN timestamp ELSE tb[2] >>

\* both bounds set by the first line only
ExtendBoundsOnce(tb, timestamp) ==
    << IF tb[1] = None THEN timestamp ELSE tb[1],
       IF tb[2] = None THEN timestamp ELSE tb[2] >>

\* the time bounds after a line stamped timestamp
ExtendBounds(tb, timestamp) ==
    << IF tb[1] = None \/ Before(timestamp, tb[1]) THEN timestamp ELSE tb[1],
       IF tb[2] = None \/ Before(tb[2], timestamp) THEN timestamp ELSE tb[2] >>

\* The body of "for line in handle" below the bounds update: the entries the
\* line appends to logEntries[name], in order, and the new flags and labels.
ParseLine(line, flags, labels) ==
    LET timestamp == getTime(line)
        took == setEntryVip(LogEntry(timestamp, line, tookVip), line)
        lost == setEntryVip(LogEntry(timestamp, line, lostVip), line)
        e1 == IF IsScript(line) THEN <<ScriptEntry(timestamp, line)>> ELSE <<>>
        e2 == IF IsArp(line) /\ ArpAppends(line, flags) THEN <<took>> ELSE <<>>
        e3 == IF IsMaster(line) THEN <<took>> ELSE <<>>
        e4 == IF IsBackup(line) THEN <<lost>> ELSE <<>>
        e5 == IF IsReload(line) THEN <<LogEntry(timestamp, line, reloading)>> ELSE <<>>
        e6 == IF IsAddress(line) THEN <<LogEntry(timestamp, line, nodeAddress)>> ELSE <<>>
    IN [new |-> e1 \o e2 \o e3 \o e4 \o e5 \o e6,
        flags |-> FlagsAfter(line, flags),
        labels |-> IF IsArp(line)
                   THEN [labels EXCEPT ![took.vip] = LastToken(line)] ELSE labels]

\* ---------------------------------------------------------- reconstructor
\* the entries left in discovery order
unsorted(entries) == entries

\* the entries sorted with reverse=True
RECURSIVE sortedDescending(_)
sortedDescending(entries) ==
    IF entries = <<>> THEN <<>>
    ELSE LET n == Len(entries)
             e == entries[n]
             rest == sortedDescending(SubSeq(entries, 1, n - 1))
             k == Cardinality({j \in 1..(n - 1) :
                     ~Before(rest[j].timestamp, e.timestamp)})
         IN SubSeq(rest, 1, k) \o <<e>> \o SubSeq(rest, k + 1, n - 1)

\* a sort by timestamp that puts the later of two equal entries first
RECURSIVE sortedTiesReversed(_)
sortedTiesReversed(entries) ==
    IF entries = <<>> THEN <<>>
    ELSE LET n == Len(entries)
             e == entries[n]
             rest == sortedTiesReversed(SubSeq(entries, 1, n - 1))
             k == Cardinality({j \in 1..(n - 1) :
                     Before(rest[j].timestamp, e.timestamp)})
         IN SubSeq(rest, 1, k) \o <<e>> \o SubSeq(rest, k + 1, n - 1)

\* sorted(entries, key=lambda x: x.timestamp): a stable sort
RECURSIVE sorted(_)
sorted(entries) ==
    IF entries = <<>> THEN <<>>
    ELSE LET n == Len(entries)
             e == entries[n]
             rest == sorted(SubSeq(entries, 1, n - 1))
             k == Cardinality({j \in 1..(n - 1) :
                     ~Before(e.timestamp, rest[j].timestamp)})
         IN SubSeq(rest, 1, k) \o <<e>> \o SubSeq(rest, k + 1, n - 1)

\* ReplayStep without the haveVip test on a TookVip
ReplayStepUnguarded(data, have, entry) ==
    LET s == entry.vip
        gain == entry.event = tookVip
        loss == have[s] /\ entry.event = lostVip
    IN [data |-> IF gain \/ loss
                 THEN [data EXCEPT !.vipChanges[s] = Append(@, entry.timestamp)]
                 ELSE data,
        have |-> IF gain THEN [have EXCEPT ![s] = TRUE]
                 ELSE IF loss THEN [have EXCEPT ![s] = FALSE] ELSE have,
        err |-> ""]

\* ReplayStep without the lostVip test on an entry of a held slot
ReplayStepAnyLoses(data, have, entry) ==
    LET s == entry.vip
        gain == ~have[s] /\ entry.event = tookVip
        loss == have[s]
    IN [data |-> IF gain \/ loss
                 THEN [data EXCEPT !.vipChanges[s] = Append(@, entry.timestamp)]
                 ELSE data,
        have |-> IF gain \/ loss THEN [have EXCEPT ![s] = ~@] ELSE have,
        err |-> ""]

\* One iteration of the replay loop: the node's record, the haveVip flags
\* and the exception the iteration raises ("" for none).
ReplayStep(data, have, entry) ==
    LET s == entry.vip
        gain == ~have[s] /\ entry.event = tookVip
        loss == have[s] /\ entry.event = lostVip
        d1 == IF gain \/ loss
              THEN [data EXCEPT !.vipChanges[s] = Append(@, entry.timestamp)]
              ELSE data
        h1 == IF gain \/ loss THEN [have EXCEPT ![s] = ~@] ELSE have
        d2 == IF entry.event \in {scriptSucceeded, scriptFailed, reloading}
              THEN [d1 EXCEPT !.events = Append(@, entry)] ELSE d1
        parts == entry.line.text
        i == IndexOf("address", parts)
    IN IF entry.event # nodeAddress THEN [data |-> d2, have |-> h1, err |-> ""]
       ELSE IF i = 0 THEN [data |-> d2, have |-> h1, err |-> "is not in list"]
       ELSE IF i = Len(parts)
            THEN [data |-> d2, have |-> h1, err |-> "list index out of range"]
       ELSE [data |-> [d2 EXCEPT !.addrs = @ \cup {parts[i + 1]}],
             have |-> h1, err |-> ""]

\* ------------------------------------------------------------------ view
\* (change - start).total_seconds(), of two second-resolution instants
total_seconds(start, change) == change.sec - start.sec

\* populateView: the lengths addLabel computes for one slot, from the
\* earliest bound through the boundaries to the latest bound
RECURSIVE VipSegments(_, _, _)
VipSegments(start, changes, end) ==
    IF changes = <<>> THEN <<total_seconds(start, end)>>
    ELSE <<total_seconds(start, Head(changes))>>
         \o VipSegments(Head(changes), Tail(changes), end)

\* populateView: the stretches of the events row, int(length) - 1 before
\* each event with length = max(..., 1), and the remaining one
RECURSIVE EventStretches(_, _, _)
EventStretches(start, events, end) ==
    IF events = <<>> THEN <<total_seconds(start, end)>>
    ELSE LET d == total_seconds(start, Head(events).timestamp)
         IN <<(IF d > 1 THEN d ELSE 1) - 1>>
            \o EventStretches(Head(events).timestamp, Tail(events), end)

\* ------------------------------------------------------------------ state
VARIABLES
    vocab,          \* the lines the log files on disk may hold
    layouts,        \* the directories the user may select
    runsLeft,       \* how many more times the user selects a path
    runNo,          \* how many times run() was started on this parser
    lineCap,        \* how many lines the files of one directory hold at most
    content,        \* path -> the lines of that file read so far
    linesRead,      \* lines read in the current run
    pc,             \* position of run(): idle, parse, scan, process, nodes,
                    \* replay, view, done, failed
    error,          \* the message of the exception run() re-raised, or ""
    logFiles,       \* self.logFiles: [path, node], node being f.name or the pod
    isMustGather,   \* self.isMustGather
    logEntries,     \* self.logEntries: name -> list of LogEntry
    logKeys,        \* the insertion order of self.logEntries' keys
    nodeData,       \* self.nodeData: name -> NodeData
    timeBounds,     \* self.timeBounds
    vips,           \* self.vips
    fileIdx,        \* parseLogs: position of "for f in self.logFiles"
    lineIdx,        \* parseLogs: position of "for line in handle"
    gratuitousArp,  \* parseLogs: the per-file flags
    handles,        \* the paths of the file handles that are open
    nodeIdx,        \* processEntries: position of the loop over logEntries
    entries,        \* processEntries: sorted(entries) of the current node
    entryIdx,       \* processEntries: position of the loop over the sorted list
    haveVip         \* processEntries: the held flags of the current node

vars == <<vocab, layouts, lineCap, runsLeft, runNo, content, linesRead, pc, error, logFiles,
          isMustGather, logEntries, logKeys, nodeData, timeBounds, vips,
          fileIdx, lineIdx, gratuitousArp, handles, nodeIdx, entries,
          entryIdx, haveVip>>

env == <<vocab, layouts, lineCap>>
parseLocals == <<fileIdx, lineIdx, gratuitousArp, handles>>
replayLocals == <<nodeIdx, entries, entryIdx, haveVip>>

NoFlags == [s \in Slots |-> FALSE]
EmptyMap == [n \in {} |-> <<>>]

\* KeepalivedLogParser.__init__
InitParser ==
    /\ logFiles = <<>>
    /\ logEntries = EmptyMap
    /\ logKeys = <<>>
    /\ nodeData = EmptyMap
    /\ timeBounds = <<None, None>>
    /\ vips = [s \in Slots |-> ""]
    /\ isMustGather = FALSE
    /\ pc = "idle" /\ error = ""
    /\ fileIdx = 0 /\ lineIdx = 0 /\ gratuitousArp = NoFlags /\ handles = {}
    /\ nodeIdx = 0 /\ entries = <<>> /\ entryIdx = 0 /\ haveVip = NoFlags
    /\ content = EmptyMap /\ linesRead = 0 /\ runNo = 0

\* A directory: whether it has the must-gather layout, and the node name of
\* each log file in it, in sorted path order.  In a flat directory the node
\* name is the file name, so the names are distinct and ascending.
Flat(names) == [mg |-> FALSE, names |-> names]
MustGather(names) == [mg |-> TRUE, names |-> names]
Layouts ==
    {Flat(<<>>), Flat(<<"n1">>), Flat(<<"n1", "n2">>), MustGather(<<"n1", "n1">>)}

\* dict.setdefault(name, [])
SetDefault(map, name) ==
    IF name \in DOMAIN map THEN map
    ELSE [n \in DOMAIN map \cup {name} |-> IF n = name THEN <<>> ELSE map[n]]
Put(map, name, val) ==
    [n \in DOMAIN map \cup {name} |-> IF n = name THEN val ELSE map[n]]

\* sorted(self.logFiles): by path
RECURSIVE SortByPath(_)
SortByPath(fs) ==
    IF fs = <<>> THEN <<>>
    ELSE LET n == Len(fs)
             rest == SortByPath(SubSeq(fs, 1, n - 1))
             k == Cardinality({j \in 1..(n - 1) : rest[j].path <= fs[n].path})
         IN SubSeq(rest, 1, k) \o <<fs[n]>> \o SubSeq(rest, k + 1, n - 1)

\* the flags of the file scanned before are carried into the next file
KeptFlags(flags) == flags
\* gratuitousArp = [False, False, False, False], at the head of each file
NewFileFlags(flags) == NoFlags

\* the handle is left open
LeftOpen(open, path) == open
\* the end of "with smartopen(f, 'rt') as handle", reached by falling off the
\* loop or by an exception
WithExit(open, path) == open \ {path}

\* the test is never true
NeverEmpty(map) == FALSE
\* len(self.logEntries.items()) == 0
NoEntries(map) == DOMAIN map = {}

\* ---------------------------------------------------------------- actions
\* selectPath / dropEvent, then run() up to the end of findLogs
SelectPath ==
    /\ pc \in {"idle", "done", "failed"}
    /\ runsLeft > 0
    /\ \E dir \in layouts :
        LET base == Cardinality(DOMAIN content)
            found == [i \in 1..Len(dir.names) |->
                        [path |-> base + i, node |-> dir.names[i]]]
        IN /\ isMustGather' = dir.mg
           /\ logFiles' = SortByPath(IF dir.mg THEN logFiles \o found ELSE found)
           /\ content' = [p \in DOMAIN content \cup {f.path : f \in {found[i] : i \in DOMAIN found}} |->
                            IF p \in DOMAIN content THEN content[p] ELSE <<>>]
    /\ runsLeft' = runsLeft - 1
    /\ runNo' = runNo + 1
    /\ linesRead' = 0
    /\ pc' = "parse" /\ error' = ""
    /\ fileIdx' = 1
    /\ UNCHANGED <<env, logEntries, logKeys, nodeData, timeBounds, vips,
                   lineIdx, gratuitousArp, handles, replayLocals>>

\* parseLogs: the head of "for f in self.logFiles", down to the open
OpenFile ==
    /\ pc = "parse" /\ fileIdx <= Len(logFiles)
    /\ LET f == logFiles[fileIdx]
       IN /\ logEntries' = SetDefault(logEntries, f.node)
          /\ logKeys' = IF f.node \in DOMAIN logEntries THEN logKeys
                        ELSE Append(logKeys, f.node)
          /\ handles' = handles \cup {f.path}
    /\ gratuitousArp' = NewFileFlags(gratuitousArp)
    /\ lineIdx' = 1
    /\ pc' = "scan"
    /\ UNCHANGED <<env, runsLeft, runNo, content, linesRead, error, logFiles,
                   isMustGather, nodeData, timeBounds, vips, fileIdx,
                   replayLocals>>

\* parseLogs: one iteration of "for line in handle"
ScanLine ==
    /\ pc = "scan"
    /\ LET f == logFiles[fileIdx]
           known == lineIdx <= Len(content[f.path])
       IN \E line \in (IF known THEN {content[f.path][lineIdx]} ELSE vocab) :
            /\ known \/ linesRead < lineCap
            /\ content' = IF known THEN content
                          ELSE [content EXCEPT ![f.path] = Append(@, line)]
            /\ linesRead' = linesRead + 1
            /\ IF getTimeRaises(line)
               THEN /\ pc' = "failed"
                    /\ error' = "Invalid isoformat string"
                    /\ handles' = WithExit(handles, f.path)
                    /\ UNCHANGED <<timeBounds, logEntries, vips, gratuitousArp,
                                   lineIdx>>
               ELSE LET r == ParseLine(line, gratuitousArp, vips)
                    IN /\ timeBounds' = ExtendBounds(timeBounds, getTime(line))
                       /\ logEntries' = [logEntries EXCEPT ![f.node] = @ \o r.new]
                       /\ vips' = r.labels
                       /\ gratuitousArp' = r.flags
                       /\ lineIdx' = lineIdx + 1
                       /\ UNCHANGED <<pc, error, handles>>
    /\ UNCHANGED <<env, runsLeft, runNo, logFiles, isMustGather, logKeys, nodeData,
                   fileIdx, replayLocals>>

\* parseLogs: the handle is exhausted, the with block closes it
CloseFile ==
    /\ pc = "scan"
    /\ lineIdx > Len(content[logFiles[fileIdx].path])
    /\ handles' = WithExit(handles, logFiles[fileIdx].path)
    /\ fileIdx' = fileIdx + 1
    /\ pc' = "parse"
    /\ UNCHANGED <<env, runsLeft, runNo, content, linesRead, error, logFiles,
                   isMustGather, logEntries, logKeys, nodeData, timeBounds,
                   vips, lineIdx, gratuitousArp, replayLocals>>

\* parseLogs returns; processEntries down to the head of its loop
ProcessEntries ==
    /\ pc = "parse" /\ fileIdx > Len(logFiles)
    /\ IF NoEntries(logEntries)
       THEN pc' = "failed" /\ error' = "No log entries"
       ELSE pc' = "nodes" /\ error' = error
    /\ nodeIdx' = 1
    /\ UNCHANGED <<env, runsLeft, runNo, content, linesRead, logFiles, isMustGather,
                   logEntries, logKeys, nodeData, timeBounds, vips,
                   parseLocals, entries, entryIdx, haveVip>>

\* processEntries: the head of "for name, entries in self.logEntries.items()"
NextNode ==
    /\ pc = "nodes"
    /\ IF nodeIdx <= Len(logKeys)
       THEN LET name == logKeys[nodeIdx]
                list == sorted(logEntries[name])
            IN /\ nodeData' = Put(nodeData, name, NodeData)
               /\ haveVip' = NoFlags
               /\ entries' = list
               /\ entryIdx' = 1
               /\ IF list = <<>>
                  THEN nodeIdx' = nodeIdx + 1 /\ pc' = pc
                  ELSE nodeIdx' = nodeIdx /\ pc' = "replay"
       ELSE /\ pc' = "view"
            /\ UNCHANGED <<nodeData, replayLocals>>
    /\ UNCHANGED <<env, runsLeft, runNo, content, linesRead, error, logFiles,
                   isMustGather, logEntries, logKeys, timeBounds, vips,
                   parseLocals>>

\* processEntries: one iteration of "for entry in sorted(...)"
ReplayEntry ==
    /\ pc = "replay"
    /\ LET name == logKeys[nodeIdx]
           r == ReplayStep(nodeData[name], haveVip, entries[entryIdx])
       IN /\ nodeData' = [nodeData EXCEPT ![name] = r.data]
          /\ haveVip' = r.have
          /\ error' = r.err
          /\ IF r.err # "" THEN pc' = "failed" /\ UNCHANGED <<nodeIdx, entryIdx>>
             ELSE IF entryIdx = Len(entries)
                  THEN pc' = "nodes" /\ nodeIdx' = nodeIdx + 1 /\ entryIdx' = entryIdx
             ELSE pc' = pc /\ nodeIdx' = nodeIdx /\ entryIdx' = entryIdx + 1
    /\ UNCHANGED <<env, runsLeft, runNo, content, linesRead, logFiles, isMustGather,
                   logEntries, logKeys, timeBounds, vips, parseLocals, entries>>

\* populateView, and run() to its end; the duration of line 267 is a
\* subtraction of None from None, a TypeError, when no line was ever read
PopulateView ==
    /\ pc = "view"
    /\ IF timeBounds[1] = None
       THEN pc' = "failed" /\ error' = "unsupported operand type(s) for -"
       ELSE pc' = "done" /\ error' = error
    /\ UNCHANGED <<env, runsLeft, runNo, content, linesRead, logFiles,
                   isMustGather, logEntries, logKeys, nodeData, timeBounds,
                   vips, parseLocals, replayLocals>>

Next ==
    \/ SelectPath
    \/ OpenFile
    \/ ScanLine
    \/ CloseFile
    \/ ProcessEntries
    \/ NextNode
    \/ ReplayEntry
    \/ PopulateView

\* --------------------------------------------------------- specifications
HalfSecond == [ok |-> TRUE, sec |-> 0, micro |-> 5]

\* Logs with lines of no known kind, an unreadable timestamp, a sub-second
\* timestamp, and address lines with and without an address token.
Texts ==
    {OtherText, MasterText("(ocp_API_0)"), AddrText, AddrNoTokenText,
     AddrNoWordText, ScriptText("VRRP_Script(chk_ocp)", "succeeded")}
Lines ==
    LinesOf(Texts, Stamps)
    \cup {[stamp |-> BadStamp, text |-> OtherText],
          [stamp |-> HalfSecond, text |-> OtherText]}

Init ==
    /\ InitParser
    /\ vocab = Lines
    /\ layouts = Layouts
    /\ lineCap = MaxLinesWide
    /\ runsLeft = 1

Spec == Init /\ [][Next]_vars

\* Logs of VIP transitions of slot 0.
VipTexts ==
    {MasterText("(ocp_API_0)"), BackupText("(ocp_API_0)"),
     ArpText("(ocp_API_0)", "10.0.0.1")}
VipLines == LinesOf(VipTexts, Stamps)
VipLayouts == {Flat(<<"n1">>), Flat(<<"n1", "n2">>), MustGather(<<"n1", "n1">>)}

InitVip ==
    /\ InitParser
    /\ vocab = VipLines
    /\ layouts = VipLayouts
    /\ lineCap = MaxLines
    /\ runsLeft = 1

SpecVip == InitVip /\ [][Next]_vars

\* Logs of ARP/NA announcements and MASTER transitions of two slots.
ArpTexts ==
    {MasterText("(ocp_API_0)"), ArpText("(ocp_API_0)", "10.0.0.1"),
     NaText("(ocp_API_0)", "fd00::1"), MasterText("(ocp_API_1)"),
     ArpText("(ocp_API_1)", "10.0.0.2")}
ArpLines == LinesOf(ArpTexts, Stamps)
ArpLayouts == {Flat(<<"n1">>), MustGather(<<"n1", "n1">>)}

InitArp ==
    /\ InitParser
    /\ vocab = ArpLines
    /\ layouts = ArpLayouts
    /\ lineCap = MaxLinesWide
    /\ runsLeft = 1

SpecArp == InitArp /\ [][Next]_vars

\* Logs of the second API VIP, health checks and addresses, read from two
\* files in either order.
OrderTexts ==
    {MasterText("(ocp_API_1)"), BackupText("(ocp_API_1)"),
     ArpText("(ocp_API_1)", "10.0.0.2"), AddrText,
     ScriptText("VRRP_Script(chk_ingress)", "failed")}
OrderLines ==
    LinesOf(OrderTexts, Stamps)
    \cup {[stamp |-> HalfSecond, text |-> BackupText("(ocp_API_1)")]}
OrderLayouts == {MustGather(<<"n1", "n1">>), Flat(<<"n1", "n2">>)}

InitOrder ==
    /\ InitParser
    /\ vocab = OrderLines
    /\ layouts = OrderLayouts
    /\ lineCap = MaxLinesWide
    /\ runsLeft = 1

SpecOrder == InitOrder /\ [][Next]_vars

\* Logs with lines of no known kind, read by a parser that is run twice.
RerunTexts ==
    {OtherText, MasterText("(ocp_API_0)"), ArpText("(ocp_API_0)", "10.0.0.1")}
RerunLines ==
    LinesOf(RerunTexts, Stamps)
    \cup {[stamp |-> HalfSecond, text |-> OtherText]}
RerunLayouts == {Flat(<<"n1">>), MustGather(<<"n2">>)}

InitRerun ==
    /\ InitParser
    /\ vocab = RerunLines
    /\ layouts = RerunLayouts
    /\ lineCap = MaxLinesRerun
    /\ runsLeft = 2

SpecRerun == InitRerun /\ [][Next]_vars

\* Logs of health checks, reloads, addresses and VIP transitions of one node.
NodeTexts ==
    {ScriptText("VRRP_Script(chk_ocp)", "succeeded"),
     ScriptText("VRRP_Script(chk_ingress)", "failed"), ReloadText, AddrText,
     AddrOnIfaceText, MasterText("(ocp_API_0)"), BackupText("(ocp_API_0)")}
NodeLines == LinesOf(NodeTexts, Stamps)
NodeLayouts == {Flat(<<"n1">>), MustGather(<<"n1", "n1">>)}

InitNode ==
    /\ InitParser
    /\ vocab = NodeLines
    /\ layouts = NodeLayouts
    /\ lineCap = MaxLinesWide
    /\ runsLeft = 1

SpecNode == InitNode /\ [][Next]_vars

\* Logs of VIP transitions of every slot, with every marker of setEntryVip,
\* next to events that carry no slot of their own; all at one instant.
SlotTags ==
    {"(ocp_API_0)", "(ocp_API_1)", "(ocp_INGRESS_0)", "(ocp_INGRESS)",
     "(ocp_INGRESS_1)", "(API_1+INGRESS_0)"}
SlotTexts ==
    {MasterText(tag) : tag \in SlotTags} \cup {BackupText(tag) : tag \in SlotTags}
    \cup {ReloadText, AddrText, ScriptText("VRRP_Script(chk_ingress)", "failed")}
SlotLines == LinesOf(SlotTexts, {GoodStamp(0, 0)})
SlotLayouts == {Flat(<<"n1">>)}

InitSlots ==
    /\ InitParser
    /\ vocab = SlotLines
    /\ layouts = SlotLayouts
    /\ lineCap = MaxLinesWide
    /\ runsLeft = 1

SpecSlots == InitSlots /\ [][Next]_vars

\* ------------------------------------------------- a whole run as a value
\* parseLogs and processEntries of a fresh parser over a list of files
\* [node, lines], composed of the same steps as the actions above.
Front(seq) == SubSeq(seq, 1, Len(seq) - 1)
Last(seq) == seq[Len(seq)]

FreshScan ==
    [logEntries |-> EmptyMap, logKeys |-> <<>>, timeBounds |-> <<None, None>>,
     vips |-> [s \in Slots |-> ""], flags |-> NoFlags]

RECURSIVE ScanLines(_, _, _)
ScanLines(st, node, lines) ==
    IF lines = <<>> THEN st
    ELSE LET prev == ScanLines(st, node, Front(lines))
             line == Last(lines)
             r == ParseLine(line, prev.flags, prev.vips)
         IN [prev EXCEPT !.timeBounds = ExtendBounds(@, getTime(line)),
                         !.logEntries[node] = @ \o r.new,
                         !.vips = r.labels,
                         !.flags = r.flags]

RECURSIVE parseLogs(_)
parseLogs(files) ==
    IF files = <<>> THEN FreshScan
    ELSE LET prev == parseLogs(Front(files))
             f == Last(files)
             opened == [prev EXCEPT
                          !.logEntries = SetDefault(@, f.node),
                          !.logKeys = IF f.node \in DOMAIN prev.logEntries THEN @
                                      ELSE Append(@, f.node),
                          !.flags = NewFileFlags(@)]
         IN ScanLines(opened, f.node, f.lines)

RECURSIVE Replay(_)
Replay(list) ==
    IF list = <<>> THEN [data |-> NodeData, have |-> NoFlags]
    ELSE LET prev == Replay(Front(list))
             r == ReplayStep(prev.data, prev.have, Last(list))
         IN [data |-> r.data, have |-> r.have]

processEntries(map) == [n \in DOMAIN map |-> Replay(sorted(map[n])).data]

AggregateResult(files) ==
    LET st == parseLogs(files)
    IN [timeBounds |-> st.timeBounds, vips |-> st.vips,
        nodes |-> processEntries(st.logEntries)]

\* the files of the current run, in scan order, with the lines read
ScannedFiles ==
    [i \in 1..Len(logFiles) |->
        [node |-> logFiles[i].node, lines |-> content[logFiles[i].path]]]

\* every other order in which the same files can be scanned
ScanOrders(files) ==
    {[i \in 1..Len(files) |-> files[p[i]]] :
        p \in {q \in [1..Len(files) -> 1..Len(files)] :
                 /\ \A a, b \in 1..Len(files) : a # b => q[a] # q[b]
                 /\ \E a \in 1..Len(files) : q[a] # a}}

\* what the run left in the parser
Outcome == [timeBounds |-> timeBounds, vips |-> vips, nodes |-> nodeData]

\* ----------------------------------------------------------------- claims
IsOdd(i) == i % 2 = 1
\* the node whose replay the haveVip flags belong to, "" when there is none
ReplayedNode ==
    IF pc = "replay" THEN logKeys[nodeIdx]
    ELSE IF pc \in {"nodes", "view", "done"} /\ nodeIdx > 1 THEN logKeys[nodeIdx - 1]
    ELSE ""

\* C1: every boundary list alternates, starting with a gain: an entry at an
\* even (0-based) index is the timestamp of a TookVip of that node and slot,
\* one at an odd index that of a LostVip of that node and slot, and the slot
\* is held at the end of the replay exactly when the list has odd length.
C1_Alternation ==
    /\ \A n \in DOMAIN nodeData : \A s \in Slots :
        LET vc == nodeData[n].vipChanges[s]
        IN \A i \in 1..Len(vc) :
             \E k \in 1..Len(logEntries[n]) :
                /\ logEntries[n][k].vip = s
                /\ logEntries[n][k].timestamp = vc[i]
                /\ logEntries[n][k].event = (IF IsOdd(i) THEN tookVip ELSE lostVip)
    /\ ReplayedNode # "" =>
         \A s \in Slots :
            haveVip[s] <=> IsOdd(Len(nodeData[ReplayedNode].vipChanges[s]))

\* a finished run in which a slot was gained, lost and gained again
C1_Witness ==
    /\ pc = "done"
    /\ \E n \in DOMAIN nodeData :
         Len(nodeData[n].vipChanges[0]) = 3 /\ haveVip[0] /\ ReplayedNode = n

\* C2 as claimed: every boundary is strictly later than the one before it.
C2_StrictlyIncreasing ==
    \A n \in DOMAIN nodeData : \A s \in Slots :
        LET vc == nodeData[n].vipChanges[s]
        IN \A i \in 1..(Len(vc) - 1) : Before(vc[i], vc[i + 1])

\* C2 as amended: every boundary list is sorted, no boundary is earlier than
\* the one before it (two may be equal).
C2_NonDecreasing ==
    \A n \in DOMAIN nodeData : \A s \in Slots :
        LET vc == nodeData[n].vipChanges[s]
        IN \A i \in 1..(Len(vc) - 1) : ~Before(vc[i + 1], vc[i])

\* a gain and a loss whose lines carry different timestamps within one second
C2_Witness ==
    /\ pc = "done"
    /\ \E n \in DOMAIN nodeData : \E s \in Slots :
        LET vc == nodeData[n].vipChanges[s]
        IN /\ Len(vc) = 2 /\ vc[1] = vc[2]
           /\ \E k \in 1..Len(logEntries[n]) :
                /\ logEntries[n][k].event = lostVip
                /\ logEntries[n][k].line.stamp.micro # 0

\* no two collected events of node n share a timestamp
NoTies(n) ==
    \A i, j \in 1..Len(logEntries[n]) :
        i < j => logEntries[n][i].timestamp # logEntries[n][j].timestamp

Elems(seq) == {seq[i] : i \in 1..Len(seq)}

C4_NoTiesAnyOrder ==
    pc = "done" =>
        /\ \A o \in ScanOrders(ScannedFiles) :
             LET r == AggregateResult(o)
             IN \A n \in DOMAIN nodeData : NoTies(n) => r.nodes[n] = nodeData[n]
        /\ \A a, b \in 1..Len(logFiles) :
             LET fa == ScannedFiles[a]
                 fb == ScannedFiles[b]
             IN ( /\ Len(logFiles) = 2 /\ a # b /\ fa.node = fb.node
                  /\ Len(fa.lines) = 1 /\ Len(fb.lines) = 1
                  /\ IsMaster(fa.lines[1]) /\ In(<<"API_1">>, fa.lines[1])
                  /\ IsBackup(fb.lines[1]) /\ In(<<"API_1">>, fb.lines[1])
                  /\ Before(getTime(fa.lines[1]), getTime(fb.lines[1])) )
                => nodeData[fa.node].vipChanges[1]
                     = <<getTime(fa.lines[1]), getTime(fb.lines[1])>>

\* the file with the loss was scanned before the file with the earlier gain
C4_Witness ==
    /\ pc = "done"
    /\ Len(logFiles) = 2
    /\ logFiles[1].node = logFiles[2].node
    /\ Len(content[logFiles[1].path]) = 1
    /\ Len(content[logFiles[2].path]) = 1
    /\ IsBackup(content[logFiles[1].path][1])
    /\ IsMaster(content[logFiles[2].path][1])
    /\ Before(getTime(content[logFiles[2].path][1]),
              getTime(content[logFiles[1].path][1]))
    /\ Len(nodeData[logFiles[1].node].vipChanges[1]) = 2

\* a step of ScanLine that read a line without raising
ScannedOne == pc = "scan" /\ lineIdx' = lineIdx + 1
\* the line that step read, and the entries it appended
LineScanned == content'[logFiles[fileIdx].path][lineIdx]
Appended ==
    LET n == logFiles[fileIdx].node
    IN SubSeq(logEntries'[n], Len(logEntries[n]) + 1, Len(logEntries'[n]))
\* an earlier line of the file being scanned produced a TookVip for slot s
TookEarlier(s) ==
    \E j \in 1..(lineIdx - 1) :
        LET l == content[logFiles[fileIdx].path][j]
        IN (IsArp(l) \/ IsMaster(l)) /\ SlotOf(l) = s
TookCount(list) == Cardinality({k \in 1..Len(list) : list[k].event = tookVip})

\* C5: an ARP/NA line for a slot for which the file being scanned has already
\* produced a TookVip (from an ARP/NA or a MASTER line) appends no TookVip
\* of its own, so a file appends at most one TookVip per slot from ARP/NA lines.
C5_ArpOncePerFile ==
    [][ (ScannedOne /\ IsArp(LineScanned) /\ TookEarlier(SlotOf(LineScanned)))
          => TookCount(Appended) = (IF IsMaster(LineScanned) THEN 1 ELSE 0) ]_vars

\* the second line of a file is an ARP/NA line for the slot of the first, an
\* ARP/NA or MASTER line, and the file has appended one entry
C5_Witness ==
    /\ pc = "scan" /\ fileIdx = 1 /\ lineIdx = 3
    /\ LET ls == content[logFiles[1].path]
       IN /\ IsArp(ls[2])
          /\ IsArp(ls[1]) \/ IsMaster(ls[1])
          /\ SlotOf(ls[1]) = SlotOf(ls[2])
    /\ Len(logEntries[logFiles[1].node]) = 1

\* C6: the flags are reset per file: an ARP/NA line for a slot for which the
\* file being scanned has produced no TookVip yet appends its TookVip, also
\* when an earlier file of the node produced one for that slot.
C6_FirstArpOfFileAppends ==
    [][ (ScannedOne /\ IsArp(LineScanned) /\ ~TookEarlier(SlotOf(LineScanned)))
          => /\ TookCount(Appended) = (IF IsMaster(LineScanned) THEN 2 ELSE 1)
             /\ \A k \in 1..Len(Appended) :
                  /\ Appended[k].line = LineScanned
                  /\ Appended[k].vip = SlotOf(LineScanned) ]_vars

\* the second file of a node starts with an ARP/NA line for a slot the first
\* file produced a TookVip for, and the node has both entries
C6_Witness ==
    /\ pc = "scan" /\ fileIdx = 2 /\ lineIdx = 2
    /\ logFiles[1].node = logFiles[2].node
    /\ LET l1 == content[logFiles[1].path]
           l2 == content[logFiles[2].path]
       IN /\ Len(l1) = 1 /\ IsArp(l2[1])
          /\ IsArp(l1[1]) \/ IsMaster(l1[1])
          /\ SlotOf(l1[1]) = SlotOf(l2[1])
    /\ TookCount(logEntries[logFiles[2].node]) = 2

\* the lines read so far, of all files
LinesSeen == UNION {Elems(content[p]) : p \in DOMAIN content}
Recognized(line) ==
    \/ IsScript(line) \/ IsArp(line) \/ IsMaster(line)
    \/ IsBackup(line) \/ IsReload(line) \/ IsAddress(line)
\* the leading token of the line is no ISO-8601 timestamp
Malformed(line) == ~line.stamp.ok
\* such a line has been read
BadRead == \E line \in LinesSeen : Malformed(line)

\* C7 as claimed: a first run that read at least one line and no recognized
\* line has, once parseLogs is over, its time bounds set, and has failed with
\* 'No log entries' without a node record.
C7_NoRecognizedLineFails ==
    ( /\ runNo = 1 /\ ~BadRead /\ LinesSeen # {}
      /\ \A line \in LinesSeen : ~Recognized(line)
      /\ pc \notin {"idle", "parse", "scan"} )
    => /\ timeBounds[1] # None /\ timeBounds[2] # None
       /\ pc = "failed" /\ error = "No log entries"
       /\ DOMAIN nodeData = {}

\* C8: a first run over no file at all ends, once parseLogs is over, failed
\* with 'No log entries' and with nodeData empty.
C8_ZeroFilesFails ==
    (runNo = 1 /\ logFiles = <<>> /\ pc \notin {"idle", "parse"})
    => pc = "failed" /\ error = "No log entries" /\ DOMAIN nodeData = {}

C8_Witness ==
    /\ runNo = 1 /\ logFiles = <<>>
    /\ pc = "failed" /\ error = "No log entries" /\ DOMAIN nodeData = {}

\* C9: once a first run has read a line whose leading token is no timestamp,
\* the run has failed with the parse error at that line: it is the last line
\* read, no later file was opened, no handle is open, processEntries has not
\* started and nodeData holds no record.
C9_MalformedAborts ==
    (runNo = 1 /\ BadRead) =>
        /\ pc = "failed" /\ error = "Invalid isoformat string"
        /\ LET ls == content[logFiles[fileIdx].path]
           IN /\ Len(ls) = lineIdx /\ Malformed(ls[lineIdx])
              /\ \A j \in 1..(lineIdx - 1) : ~Malformed(ls[j])
        /\ \A i \in 1..Len(logFiles) :
             /\ i < fileIdx =>
                  \A line \in Elems(content[logFiles[i].path]) : ~Malformed(line)
             /\ i > fileIdx => content[logFiles[i].path] = <<>>
        /\ handles = {}
        /\ nodeIdx = 0
        /\ DOMAIN nodeData = {}

\* the run failed at a malformed line after collecting an entry, with a file
\* left unscanned
C9_Witness ==
    /\ runNo = 1 /\ BadRead /\ pc = "failed"
    /\ fileIdx < Len(logFiles)
    /\ \E n \in DOMAIN logEntries : logEntries[n] # <<>>

\* C10 as claimed: a run fails only with the timestamp error, having read a
\* malformed line, or with 'No log entries', having collected no entry.
C10_OnlyTwoErrors ==
    pc = "failed" =>
        \/ error = "Invalid isoformat string" /\ BadRead
        \/ /\ error = "No log entries"
           /\ \A line \in LinesSeen : ~Recognized(line)

\* the lines read so far whose leading token is a timestamp, and the
\* second-resolution instant of such a line
StampedSeen == {line \in LinesSeen : ~Malformed(line)}
Instant(line) == Time(line.stamp.sec, 0)

C15_SecondRunLikeFresh ==
    (runNo = 2 /\ pc = "done" /\ ~isMustGather)
        => Outcome = AggregateResult(ScannedFiles)

\* the ARP/NA lines read for slot s
ArpSeen(s) == {line \in StampedSeen : IsArp(line) /\ SlotOf(line) = s}

\* C12 as claimed: after a run the label of every slot is the last token of
\* an ARP/NA line for that slot with the latest timestamp of all such lines
\* read, and the empty string when there is no such line.
C12_LatestArpWins ==
    pc = "done" =>
        \A s \in Slots :
            IF ArpSeen(s) = {} THEN vips[s] = ""
            ELSE \E line \in ArpSeen(s) :
                    /\ \A other \in ArpSeen(s) :
                         ~Before(Instant(line), Instant(other))
                    /\ vips[s] = LastToken(line)

\* the lines read from the first k files of the run that belong to node n,
\* in scan order
RECURSIVE LinesOfNode(_, _)
LinesOfNode(n, k) ==
    IF k = 0 THEN <<>>
    ELSE LinesOfNode(n, k - 1)
         \o (IF logFiles[k].node = n THEN content[logFiles[k].path] ELSE <<>>)
Count(seq, x) == Cardinality({i \in 1..Len(seq) : seq[i] = x})
Health == {scriptSucceeded, scriptFailed, reloading}
Reconstructed == pc \in {"view", "done"}

\* C13: after processEntries the events list of every node holds that node's
\* collected ScriptSucceeded, ScriptFailed and Reloading entries, each as often
\* as it was collected, and no entry of another kind, in non-decreasing
\* timestamp order; every 'VRRP_Script ... succeeded' line with 'chk_ocp'
\* read for the node at T is there as a ScriptSucceeded event of slot 0 at T.
C13_HealthEvents ==
    Reconstructed =>
        \A n \in DOMAIN nodeData :
            LET ev == nodeData[n].events
                lines == LinesOfNode(n, Len(logFiles))
            IN /\ \A i \in 1..Len(ev) : ev[i].event \in Health
               /\ \A e \in Elems(logEntries[n]) :
                    e.event \in Health => Count(ev, e) = Count(logEntries[n], e)
               /\ \A e \in Elems(ev) : Count(ev, e) = Count(logEntries[n], e)
               /\ \A i \in 1..(Len(ev) - 1) :
                    ~Before(ev[i + 1].timestamp, ev[i].timestamp)
               /\ \A line \in Elems(lines) :
                    ( /\ In(<<"VRRP_Script">>, line) /\ In(<<"succeeded">>, line)
                      /\ In(<<"chk_ocp">>, line) )
                    => Count(ev, [timestamp |-> Instant(line), line |-> line,
                                  event |-> scriptSucceeded, vip |-> 0])
                         = Count(lines, line)

\* a node whose reload was read before an earlier 'chk_ocp' success, next to
\* an entry of another kind
C13_Witness ==
    /\ pc = "done"
    /\ \E n \in DOMAIN nodeData :
        LET ev == nodeData[n].events
        IN /\ Len(ev) = 2
           /\ ev[1].event = scriptSucceeded /\ ev[1].vip = 0
           /\ ev[2].event = reloading
           /\ Before(ev[1].timestamp, ev[2].timestamp)
           /\ logEntries[n][1].event = reloading

\* the token after the first token 'address' of a line
AddrToken(line) ==
    line.text[1 + CHOOSE i \in 1..Len(line.text) :
                     /\ line.text[i] = "address"
                     /\ \A j \in 1..(i - 1) : line.text[j] # "address"]

\* C14: after processEntries the addrs of every node is the set of the tokens
\* that follow the word 'address' in the 'Assigned address' lines read for
\* the node, whatever their number of repetitions; during collection a first
\* run has no node record, and no step of parseLogs changes nodeData.
C14_AddrsFromAddressLines ==
    /\ [](Reconstructed =>
            \A n \in DOMAIN nodeData :
                nodeData[n].addrs =
                    {AddrToken(line) :
                        line \in {l \in Elems(LinesOfNode(n, Len(logFiles))) :
                                    IsAddress(l)}})
    /\ []((runNo = 1 /\ pc \in {"parse", "scan"}) => nodeData = EmptyMap)
    /\ [][ (pc \in {"parse", "scan"}) => (nodeData' = nodeData) ]_vars

\* a node for which the same address line was read twice
C14_Witness ==
    /\ pc = "done"
    /\ \E n \in DOMAIN nodeData :
        LET lines == LinesOfNode(n, Len(logFiles))
        IN /\ Len(lines) = 2 /\ lines[1] = lines[2] /\ IsAddress(lines[1])
           /\ Len(logEntries[n]) = 2
           /\ nodeData[n].addrs = {"10.0.0.6"}

\* the entries of a list that carry timestamp t, in the order of the list
AtStamp(list, t) == SelectSeq(list, LAMBDA e : e.timestamp = t)

\* C16: the list being replayed holds the node's collected entries in
\* non-decreasing timestamp order, those of equal timestamp in the order of
\* their collection; and a node that collected, in this order, a TookVip at
\* A, a LostVip at B >= A and a TookVip at B for one slot has the boundaries
\* [A, B, B] for it and holds the slot at the end of its replay.
C16_StableReplayOrder ==
    /\ pc = "replay" =>
         LET coll == logEntries[logKeys[nodeIdx]]
         IN /\ Len(entries) = Len(coll)
            /\ \A i \in 1..(Len(entries) - 1) :
                 ~Before(entries[i + 1].timestamp, entries[i].timestamp)
            /\ \A e \in Elems(coll) :
                 AtStamp(entries, e.timestamp) = AtStamp(coll, e.timestamp)
    /\ Reconstructed =>
         \A n \in DOMAIN nodeData :
            LET coll == logEntries[n]
            IN ( /\ Len(coll) = 3
                 /\ coll[1].event = tookVip /\ coll[2].event = lostVip
                 /\ coll[3].event = tookVip
                 /\ coll[1].vip = coll[2].vip /\ coll[2].vip = coll[3].vip
                 /\ coll[2].timestamp = coll[3].timestamp
                 /\ ~Before(coll[2].timestamp, coll[1].timestamp) )
               => /\ nodeData[n].vipChanges[coll[1].vip]
                       = <<coll[1].timestamp, coll[2].timestamp, coll[3].timestamp>>
                  /\ ReplayedNode = n => haveVip[coll[1].vip]

\* a loss in one file and a gain at the same timestamp in the next file of
\* the node, the slot being held before
C16_Witness ==
    /\ pc = "done"
    /\ Len(logFiles) = 2 /\ logFiles[1].node = logFiles[2].node
    /\ Len(content[logFiles[1].path]) = 2
    /\ LET coll == logEntries[logFiles[1].node]
       IN /\ Len(coll) = 3
          /\ coll[1].event = tookVip /\ coll[2].event = lostVip
          /\ coll[3].event = tookVip
          /\ coll[1].timestamp = coll[2].timestamp
          /\ coll[2].timestamp = coll[3].timestamp
    /\ Len(nodeData[logFiles[1].node].vipChanges[0]) = 3
    /\ haveVip[0]

\* the entry a step of the replay loop processes
Replayed == entries[entryIdx]
VipKinds == {tookVip, lostVip}

\* C17: a step of the replay loop changes no boundary list and no held flag
\* of a slot other than its entry's; it changes none at all when the entry is
\* a TookVip of a held slot, a LostVip of a slot not held, or an entry of
\* another kind; and it changes no other node's record.
C17_ReplayFrame ==
    [][ (pc = "replay") =>
          LET n == logKeys[nodeIdx]
              s == Replayed.vip
              idle == \/ Replayed.event = tookVip /\ haveVip[s]
                      \/ Replayed.event = lostVip /\ ~haveVip[s]
                      \/ Replayed.event \notin VipKinds
          IN /\ \A t \in Slots \ {s} :
                  /\ nodeData'[n].vipChanges[t] = nodeData[n].vipChanges[t]
                  /\ haveVip'[t] = haveVip[t]
             /\ idle => /\ nodeData'[n].vipChanges = nodeData[n].vipChanges
                        /\ haveVip' = haveVip
             /\ \A m \in DOMAIN nodeData \ {n} : nodeData'[m] = nodeData[m] ]_vars

\* a node replayed two TookVip of one slot and holds it with one boundary,
\* or replayed a health check of a slot it holds
C17_Witness ==
    /\ pc = "done"
    /\ \E n \in DOMAIN nodeData :
        LET coll == logEntries[n]
        IN /\ Len(coll) = 2
           /\ coll[1].event = tookVip /\ coll[1].vip = 1
           /\ coll[2].vip = 1 /\ coll[2].event \in {tookVip, scriptFailed}
           /\ Len(nodeData[n].vipChanges[1]) = 1
           /\ haveVip[1]

\* the slot the markers of a line stand for, first match first
MarkerSlot(line) ==
    CASE In(<<"API_1">>, line) -> 1
      [] ~In(<<"API_1">>, line)
         /\ (In(<<"INGRESS_0">>, line) \/ In(<<"_INGRESS)">>, line)) -> 2
      [] ~In(<<"API_1">>, line) /\ ~In(<<"INGRESS_0">>, line)
         /\ ~In(<<"_INGRESS)">>, line) /\ In(<<"INGRESS_1">>, line) -> 3
      [] OTHER -> 0

\* C18: every collected TookVip and LostVip entry has the slot its line's
\* markers stand for: 1 with 'API_1', else 2 with 'INGRESS_0' or '_INGRESS)',
\* else 3 with 'INGRESS_1', else 0; the slot is one of 0..3.
C18_SlotByMarker ==
    \A n \in DOMAIN logEntries :
        \A e \in Elems(logEntries[n]) :
            e.event \in VipKinds
                => e.vip \in Slots /\ e.vip = MarkerSlot(e.line)

\* a line with 'API_1' and 'INGRESS_0' gave slot 1, one with '_INGRESS)' slot 2
C18_Witness ==
    \E n \in DOMAIN logEntries :
        /\ \E e \in Elems(logEntries[n]) :
             /\ e.event \in VipKinds /\ e.vip = 1
             /\ In(<<"API_1">>, e.line) /\ In(<<"INGRESS_0">>, e.line)
        /\ \E e \in Elems(logEntries[n]) :
             /\ e.event \in VipKinds /\ e.vip = 2 /\ In(<<"_INGRESS)">>, e.line)

\* C19: at most one file handle is open; one is open only while its file is
\* being scanned, so each file is closed before the next is opened and none
\* stays open when parseLogs has ended, by returning or by raising.
C19_OneHandleScoped ==
    /\ Cardinality(handles) <= 1
    /\ pc = "scan" => handles = {logFiles[fileIdx].path}
    /\ pc # "scan" => handles = {}

\* the scan of a second file aborted on a malformed timestamp after a first
\* file was read and closed
C19_Witness ==
    /\ pc = "failed" /\ error = "Invalid isoformat string"
    /\ fileIdx = 2
    /\ content[logFiles[1].path] # <<>>
    /\ Malformed(content[logFiles[2].path][1])
    /\ handles = {}

\* t lies within the time bounds
Within(t) == ~Before(t, timeBounds[1]) /\ ~Before(timeBounds[2], t)

\* C20: after a successful first run every boundary and every event timestamp
\* of every node lies within the time bounds, and every length the view
\* computes for the slot rows and the events row is non-negative.
C20_WithinBounds ==
    (runNo = 1 /\ pc = "done") =>
        \A n \in DOMAIN nodeData :
            LET d == nodeData[n]
                row == EventStretches(timeBounds[1], d.events, timeBounds[2])
            IN /\ \A s \in Slots :
                    LET seg == VipSegments(timeBounds[1], d.vipChanges[s],
                                           timeBounds[2])
                    IN /\ \A i \in 1..Len(d.vipChanges[s]) :
                            Within(d.vipChanges[s][i])
                       /\ \A i \in 1..Len(seg) : seg[i] >= 0
               /\ \A i \in 1..Len(d.events) : Within(d.events[i].timestamp)
               /\ \A i \in 1..Len(row) : row[i] >= 0

\* a node gained a slot at the earliest bound and lost it at the later
\* latest bound
C20_Witness ==
    /\ runNo = 1 /\ pc = "done"
    /\ timeBounds[1] # timeBounds[2]
    /\ \E n \in DOMAIN nodeData :
         /\ nodeData[n].vipChanges[0] = <<timeBounds[1], timeBounds[2]>>
         /\ VipSegments(timeBounds[1], nodeData[n].vipChanges[0], timeBounds[2])
              = <<0, total_seconds(timeBounds[1], timeBounds[2]), 0>>
====
